---------------------------- MODULE Spec2Model ----------------------------
(***************************************************************************)
(* Notification timing engine of be-saavy: NotificationService (the        *)
(* scheduler, src/components/services/NotificationService.ts) and          *)
(* SmartNotificationTiming (the predictor and the delay arbiter, the       *)
(* second half of src/components/services/recommendationService.ts).       *)
(*                                                                         *)
(* Representation.                                                         *)
(*  - A Date is a number of minutes since a Sunday 00:00 local time; the   *)
(*    clock has a resolution of one minute.                                *)
(*  - An "HH:MM" string is the pair <<HH, MM>> of its two colon-separated  *)
(*    fields as Number() reads them; parseTime does the arithmetic.        *)
(*  - Fractions are exact fixed-point integers: a response rate is in      *)
(*    units of 1/RateScale, a baby-schedule conflict in 1/ConflictScale,   *)
(*    a reliability or intensity in 1/PctScale, a confidence in            *)
(*    1/ConfScale.                                                         *)
(*  - A Map is a function from its keys; a record of the pending Map       *)
(*    carries seq, the ordinal of the request that built it, which is the  *)
(*    identity of the JavaScript object (two requests can build the same   *)
(*    id string).                                                          *)
(***************************************************************************)
EXTENDS Integers, Sequences, FiniteSets, TLC

VARIABLES
    now,                    \* the wall clock, new Date() / Date.now()
    permission,             \* Notification.permission of the browser
    preferences,            \* NotificationService.preferences
    scheduledNotifications, \* NotificationService.scheduledNotifications (Map)
    timers,                 \* outstanding setTimeout callbacks (their closures)
    userBehavior,           \* SmartNotificationTiming.userBehavior
    babySchedule,           \* SmartNotificationTiming.babySchedule
    contextualFactors,      \* SmartNotificationTiming.contextualFactors
    sent,                   \* log of the calls of sendNotification, in order
    cancelled,              \* history: seq of the records cancelNotification removed
    nextSeq,                \* history: ordinal of the next request
    prefUpdates,            \* history: number of calls of updatePreferences
    learnCalls,             \* history: number of learning calls
    last                    \* history: the last handler run, its inputs and result

vars == <<now, permission, preferences, scheduledNotifications, timers,
          userBehavior, babySchedule, contextualFactors, sent, cancelled,
          nextSeq, prefUpdates, learnCalls, last>>

---------------------------------------------------------------------------
(* Bounds of the model *)

\* number of requests (scheduleRecallNotification, sendCriticalRecallAlert)
MaxReq == 2
\* number of calls of updatePreferences
MaxPrefUpdates == 1
\* number of learning calls (recordNotificationInteraction, recordUserAppUsage)
MaxLearn == 2
\* recall ids are 1..MaxRecall
MaxRecall == 1
\* the clock stops at the end of day MaxDay (day 5 is a Friday, 7 a Sunday)
MaxDay == 6

RecallIds == 1..MaxRecall
Urgencies == {"critical", "high", "medium"}

---------------------------------------------------------------------------
(* Dates *)

MinutesPerHour == 60
HoursPerDay == 24
MinutesPerDay == HoursPerDay * MinutesPerHour

At(day, h, m) == day * MinutesPerDay + h * MinutesPerHour + m

\* Date.getHours, Date.getMinutes, Date.getDay (0 = Sunday)
getHours(t) == (t % MinutesPerDay) \div MinutesPerHour
getMinutes(t) == t % MinutesPerHour
getDay(t) == (t \div MinutesPerDay) % 7
\* d.setHours(h, m, 0, 0) and d.setDate(d.getDate() + 1)
setHours(t, h, m) == (t \div MinutesPerDay) * MinutesPerDay + h * MinutesPerHour + m
addDay(t) == t + MinutesPerDay

Min(a, b) == IF a <= b THEN a ELSE b
Max(a, b) == IF a >= b THEN a ELSE b

\* Array.prototype.includes, filter(...)[0] / find
includes(s, x) == \E i \in 1..Len(s) : s[i] = x
SeqToSet(s) == {s[i] : i \in 1..Len(s)}

---------------------------------------------------------------------------
(* Fixed-point scales *)

PctScale == 10 * 10
\* rates are kept in units fine enough to hold MaxLearn weighted averages
\* (0.8 * old + 0.2 * new) of hundredths exactly
RateScale == PctScale * 5 ^ MaxLearn
ConflictScale == 10 * PctScale
ConfScale == ConflictScale * RateScale
\* a rate written in hundredths
Rate(pct) == pct * (RateScale \div PctScale)
\* "no value": an optional field left out, a key a Map does not hold
None == 0 - 1

---------------------------------------------------------------------------
(* SmartNotificationTiming: state built by the constructor *)

Window(sh, sm, eh, em) == [start |-> <<sh, sm>>, end |-> <<eh, em>>]

DefaultQuietPeriods ==
    << Window(22, 0, 7, 0), Window(13, 0, 15, 0) >>

DefaultWeeklyPattern ==
    [d \in 0..6 |->
        CASE d = 0 -> <<10, 15, 19>>
          [] d = 1 -> <<8, 12, 19>>
          [] d = 2 -> <<7, 12, 15, 19>>
          [] d = 3 -> <<8, 12, 19, 21>>
          [] d = 4 -> <<7, 12, 15, 19>>
          [] d = 5 -> <<8, 12, 19, 21>>
          [] d = 6 -> <<9, 14, 20>>]

\* lastActiveTime is new Date() of the construction
DefaultUserBehavior(t) ==
    [appUsageHours |-> <<7, 8, 12, 15, 19, 21>>,
     responseRates |-> (7 :> Rate(85) @@ 8 :> Rate(90) @@ 12 :> Rate(75) @@
                       15 :> Rate(80) @@ 19 :> Rate(85) @@ 21 :> Rate(70)),
     averageResponseTime |->
        (7 :> 5 * RateScale @@ 8 :> 3 * RateScale @@ 12 :> 15 * RateScale @@
         15 :> 8 * RateScale @@ 19 :> 5 * RateScale @@ 21 :> 20 * RateScale),
     quietPeriods |-> DefaultQuietPeriods,
     lastActiveTime |-> t,
     weeklyPattern |-> DefaultWeeklyPattern]

DefaultBabySchedule ==
    [napTimes |-> << [start |-> <<9, 30>>, end |-> <<11, 0>>, reliability |-> 80],
                     [start |-> <<13, 0>>, end |-> <<15, 0>>, reliability |-> 90],
                     [start |-> <<17, 30>>, end |-> <<18, 0>>, reliability |-> 60] >>,
     bedtime |-> [time |-> <<19, 30>>, consistency |-> 85],
     wakeupTime |-> [time |-> <<7, 0>>, consistency |-> 75],
     feedingTimes |-> <<7, 10, 13, 16, 19, 22>>,
     fussyPeriods |-> << [start |-> <<17, 0>>, end |-> <<19, 0>>, intensity |-> 80],
                         [start |-> <<5, 0>>, end |-> <<6, 0>>, intensity |-> 60] >>]

\* dayOfWeek is new Date().getDay() of the construction and is not refreshed
DefaultContextualFactors(t) ==
    [dayOfWeek |-> getDay(t), isHoliday |-> FALSE]

---------------------------------------------------------------------------
(* SmartNotificationTiming: utility methods *)

\* parseTime: hours + minutes / 60, here in units of 1/60 hour
smartParseTime(timeStr) == timeStr[1] * MinutesPerHour + timeStr[2]

\* mutant: the range test without the wraparound case
isHourInRange_noWrap(hour, start, end) ==
    hour >= start /\ hour <= end

isHourInRange(hour, start, end) ==
    IF start <= end
    THEN hour >= start /\ hour <= end
    ELSE hour >= start \/ hour <= end

isTimeInQuietPeriod(time, quietPeriod) ==
    LET timeHour == getHours(time) * MinutesPerHour + getMinutes(time)
    IN isHourInRange(timeHour, smartParseTime(quietPeriod.start),
                     smartParseTime(quietPeriod.end))

inAnyQuietPeriod(time) ==
    \E i \in 1..Len(userBehavior.quietPeriods) :
        isTimeInQuietPeriod(time, userBehavior.quietPeriods[i])

\* mutant: a time equal to the clock counts as still ahead
createOptimalTime_notPassed(hour) ==
    LET time == setHours(now, hour, 0)
    IN IF time < now THEN addDay(time) ELSE time

createOptimalTime(hour) ==
    LET time == setHours(now, hour, 0)
    IN IF time <= now THEN addDay(time) ELSE time

\* responseRates[hour] || 0.5 and averageResponseTime[hour] || 15
responseRateAt(hour) ==
    LET m == userBehavior.responseRates
    IN IF hour \in DOMAIN m /\ m[hour] # 0 THEN m[hour] ELSE RateScale \div 2

avgResponseTimeAt(hour) ==
    LET m == userBehavior.averageResponseTime
    IN IF hour \in DOMAIN m /\ m[hour] # 0 THEN m[hour] ELSE 15 * RateScale

\* weeklyPattern[dayName] || appUsageHours
patternOf(day) ==
    IF day \in DOMAIN userBehavior.weeklyPattern
    THEN userBehavior.weeklyPattern[day]
    ELSE userBehavior.appUsageHours

RECURSIVE SumSeq(_)
SumSeq(s) == IF s = <<>> THEN 0 ELSE Head(s) + SumSeq(Tail(s))

\* mutant: the sum is returned without the cap
getBabyScheduleConflict_uncapped(hour) ==
    LET naps == babySchedule.napTimes
        fussy == babySchedule.fussyPeriods
        h == hour * MinutesPerHour
        napPart == [i \in 1..Len(naps) |->
            IF isHourInRange(h, smartParseTime(naps[i].start), smartParseTime(naps[i].end))
            THEN naps[i].reliability * 8 ELSE 0]
        fussyPart == [i \in 1..Len(fussy) |->
            IF isHourInRange(h, smartParseTime(fussy[i].start), smartParseTime(fussy[i].end))
            THEN fussy[i].intensity * 6 ELSE 0]
        feedPart == IF includes(babySchedule.feedingTimes, hour)
                    THEN 2 * (ConflictScale \div 10) ELSE 0
    IN SumSeq(napPart) + SumSeq(fussyPart) + feedPart

\* reliability * 0.8, intensity * 0.6 and 0.2, in units of 1/ConflictScale
getBabyScheduleConflict(hour) ==
    LET naps == babySchedule.napTimes
        fussy == babySchedule.fussyPeriods
        h == hour * MinutesPerHour
        napPart == [i \in 1..Len(naps) |->
            IF isHourInRange(h, smartParseTime(naps[i].start), smartParseTime(naps[i].end))
            THEN naps[i].reliability * 8 ELSE 0]
        fussyPart == [i \in 1..Len(fussy) |->
            IF isHourInRange(h, smartParseTime(fussy[i].start), smartParseTime(fussy[i].end))
            THEN fussy[i].intensity * 6 ELSE 0]
        feedPart == IF includes(babySchedule.feedingTimes, hour)
                    THEN 2 * (ConflictScale \div 10) ELSE 0
    IN Min(SumSeq(napPart) + SumSeq(fussyPart) + feedPart, ConflictScale)

---------------------------------------------------------------------------
(* SmartNotificationTiming: the predictor *)

\* the score of one candidate hour, in units of 1/(1000 * RateScale), halved
\* (the weights 40, 2 and 20 as 20, 1 and 10) and with the factor 0.8 as 4/5
hourScore(hour, urgencyLevel, contentType) ==
    LET base == responseRateAt(hour) * 20
                + Max(0, 20 * RateScale - avgResponseTimeAt(hour))
                - (getBabyScheduleConflict(hour) * 10 * RateScale) \div ConflictScale
        urgent == IF urgencyLevel = "high" THEN 13 ELSE 10
        content == IF contentType = "development" /\ (hour < 8 \/ hour > 20) THEN 7 ELSE 10
        weekend == IF contextualFactors.dayOfWeek \in {0, 6} /\ hour < 9 THEN 4 ELSE 5
    IN base * urgent * content * weekend

\* Object.entries lists integer keys in ascending order and the sort is stable:
\* sortedHours[0] is the least hour among those of the greatest score
topScoringHour(pattern, urgencyLevel, contentType) ==
    LET hs == SeqToSet(pattern)
        best == {h \in hs : \A g \in hs :
                    hourScore(g, urgencyLevel, contentType) <= hourScore(h, urgencyLevel, contentType)}
    IN IF hs = {} THEN None ELSE CHOOSE h \in best : \A g \in best : h <= g

calculateOptimalHour(urgencyLevel, contentType) ==
    LET currentHour == getHours(now)
        todayPattern == patternOf(getDay(now))
        top == topScoringHour(todayPattern, urgencyLevel, contentType)
        nextFewHours == SelectSeq(todayPattern,
                            LAMBDA h : h >= currentHour /\ h <= currentHour + 3)
    IN IF urgencyLevel = "high" /\ includes(todayPattern, currentHour)
          /\ Len(nextFewHours) > 0
       THEN nextFewHours[1]
       ELSE IF top = None \/ top = 0 THEN currentHour ELSE top

\* mutant: the sum is returned without the cap
calculateConfidence_uncapped(hour, urgencyLevel) ==
    LET active == IF includes(userBehavior.appUsageHours, hour)
                  THEN 2 * (ConfScale \div 10) ELSE 0
        rate == responseRateAt(hour) * 3 * (ConflictScale \div 10)
        calm == (ConflictScale - getBabyScheduleConflict(hour)) * 2 * (RateScale \div 10)
        urgent == IF urgencyLevel = "high" THEN ConfScale \div 10 ELSE 0
    IN 7 * (ConfScale \div 10) + active + rate + calm + urgent

calculateConfidence(hour, urgencyLevel) ==
    LET active == IF includes(userBehavior.appUsageHours, hour)
                  THEN 2 * (ConfScale \div 10) ELSE 0
        rate == responseRateAt(hour) * 3 * (ConflictScale \div 10)
        calm == (ConflictScale - getBabyScheduleConflict(hour)) * 2 * (RateScale \div 10)
        urgent == IF urgencyLevel = "high" THEN ConfScale \div 10 ELSE 0
    IN Min(7 * (ConfScale \div 10) + active + rate + calm + urgent, ConfScale)

---------------------------------------------------------------------------
(* SmartNotificationTiming: the delay arbiter *)

\* 4 * 60 * 60 * 1000 ms, in hours
HighNoDelayHours == 4
\* maxDelay, in hours
MaxDelayHigh == 6
MaxDelayMedium == 24
\* 5 * 60 * 1000 ms, in minutes
DeliverNowSlackMinutes == 5

Tenths(n) == n * (ConfScale \div 10)

shouldDelayNotification(proposedTime, urgencyLevel) ==
    LET proposedHour == getHours(proposedTime)
        sleepConflict == getBabyScheduleConflict(proposedHour)
        responseRate == responseRateAt(proposedHour)
    IN IF urgencyLevel = "high"
          /\ proposedTime - now < HighNoDelayHours * MinutesPerHour
       THEN [shouldDelay |-> FALSE, reason |-> "", confidence |-> Tenths(8)]
       ELSE IF inAnyQuietPeriod(proposedTime)
       THEN [shouldDelay |-> TRUE,
             reason |-> "Proposed time conflicts with quiet hours",
             confidence |-> Tenths(9)]
       ELSE IF sleepConflict > 7 * (ConflictScale \div 10)
       THEN [shouldDelay |-> TRUE,
             reason |-> "Baby is likely sleeping or in a fussy period",
             confidence |-> sleepConflict * RateScale]
       ELSE IF responseRate < 3 * (RateScale \div 10) /\ urgencyLevel = "medium"
       THEN [shouldDelay |-> TRUE,
             reason |-> "User historically unresponsive at this time",
             confidence |-> (RateScale - responseRate) * ConflictScale]
       ELSE [shouldDelay |-> FALSE, reason |-> "", confidence |-> Tenths(8)]

\* mutant: the fallback is not moved to the next day
fallbackTime_noRoll(originalTime) ==
    LET todayPattern == patternOf(getDay(originalTime))
        later == SelectSeq(todayPattern, LAMBDA hour : hour > getHours(originalTime))
        nextActiveHour == IF Len(later) > 0 THEN later[1] ELSE todayPattern[1]
    IN setHours(originalTime, nextActiveHour, 0)

\* the fallback of findNextOptimalTime: the next active hour of the pattern
fallbackTime(originalTime) ==
    LET todayPattern == patternOf(getDay(originalTime))
        later == SelectSeq(todayPattern, LAMBDA hour : hour > getHours(originalTime))
        nextActiveHour == IF Len(later) > 0 THEN later[1] ELSE todayPattern[1]
        fallback == setHours(originalTime, nextActiveHour, 0)
    IN IF fallback < now + MinutesPerHour THEN addDay(fallback) ELSE fallback

\* the loop of findNextOptimalTime from its i-th round on
RECURSIVE probeFrom(_, _, _)
probeFrom(originalTime, i, maxDelay) ==
    LET candidate == originalTime + i * MinutesPerHour
    IN IF i > maxDelay THEN fallbackTime(originalTime)
       ELSE IF inAnyQuietPeriod(candidate) THEN probeFrom(originalTime, i + 1, maxDelay)
       ELSE IF responseRateAt(getHours(candidate)) > RateScale \div 2 THEN candidate
       ELSE probeFrom(originalTime, i + 1, maxDelay)

findNextOptimalTime(originalTime, urgencyLevel) ==
    probeFrom(originalTime, 1,
              IF urgencyLevel = "high" THEN MaxDelayHigh ELSE MaxDelayMedium)

predictOptimalTime(urgencyLevel, contentType) ==
    IF urgencyLevel = "critical"
    THEN [recommendedTime |-> now, confidence |-> ConfScale,
          reasoning |-> "Critical safety alerts are delivered immediately regardless of timing"]
    ELSE LET optimalHour == calculateOptimalHour(urgencyLevel, contentType)
             optimalTime == createOptimalTime(optimalHour)
             delayCheck == shouldDelayNotification(optimalTime, urgencyLevel)
         IN IF delayCheck.shouldDelay
            THEN [recommendedTime |-> findNextOptimalTime(optimalTime, urgencyLevel),
                  confidence |-> delayCheck.confidence,
                  reasoning |-> delayCheck.reason]
            ELSE [recommendedTime |-> optimalTime,
                  confidence |-> calculateConfidence(optimalHour, urgencyLevel),
                  reasoning |-> "Optimal timing based on"]

\* mutant: the five minutes of slack are left out
shouldDeliverNow_noSlack(scheduledTime, urgencyLevel) ==
    LET timeDiff == scheduledTime - now
    IN \/ urgencyLevel = "critical"
       \/ timeDiff <= 0
       \/ /\ urgencyLevel = "high"
          /\ calculateConfidence(getHours(now), "high")
               > calculateConfidence(getHours(scheduledTime), "high") + Tenths(2)

shouldDeliverNow(scheduledTime, urgencyLevel) ==
    LET timeDiff == scheduledTime - now
    IN \/ urgencyLevel = "critical"
       \/ timeDiff <= 0
       \/ timeDiff <= DeliverNowSlackMinutes
       \/ /\ urgencyLevel = "high"
          /\ calculateConfidence(getHours(now), "high")
               > calculateConfidence(getHours(scheduledTime), "high") + Tenths(2)

---------------------------------------------------------------------------
(* NotificationService: preferences and the per-urgency policy *)

DefaultPreferences ==
    [critical |-> [enabled |-> TRUE, disabled |-> TRUE],
     high |-> [enabled |-> TRUE, schedule |-> "immediate",
               quietHours |-> [enabled |-> TRUE, start |-> <<22, 0>>, end |-> <<7, 0>>]],
     medium |-> [enabled |-> TRUE, frequency |-> "daily_digest",
                 batchWith |-> "development_tips"]]

\* parseTime: hours * 60 + minutes
parseTime(timeStr) == timeStr[1] * 60 + timeStr[2]

isInQuietHours ==
    LET quietHours == preferences.high.quietHours
        currentTime == getHours(now) * 60 + getMinutes(now)
        start == parseTime(quietHours.start)
        end == parseTime(quietHours.end)
    IN IF ~quietHours.enabled THEN FALSE
       ELSE IF start > end THEN currentTime >= start \/ currentTime <= end
       ELSE currentTime >= start /\ currentTime <= end

\* the hour of the evening digest
EveningDigestHour == 19

\* mutant: 19:00 sharp still counts as today's digest
getEveningDigestTime_strict ==
    LET digestTime == setHours(now, EveningDigestHour, 0)
    IN IF digestTime < now THEN addDay(digestTime) ELSE digestTime

getEveningDigestTime ==
    LET digestTime == setHours(now, EveningDigestHour, 0)
    IN IF digestTime <= now THEN addDay(digestTime) ELSE digestTime

\* mutant: the immediate override does not look at the quiet hours
calculateOptimalDeliveryTime_noQuietCheck(urgencyLevel) ==
    LET optimalResult == predictOptimalTime(urgencyLevel, "recall")
    IN IF urgencyLevel = "critical"
       THEN [time |-> now,
             reasoning |-> "Critical safety alerts are delivered immediately",
             confidence |-> ConfScale]
       ELSE IF urgencyLevel = "high" /\ preferences.high.schedule = "immediate"
       THEN [time |-> now,
             reasoning |-> "User preference: immediate delivery outside quiet hours",
             confidence |-> Tenths(8)]
       ELSE IF urgencyLevel = "high" /\ preferences.high.schedule = "evening_digest"
       THEN [time |-> getEveningDigestTime,
             reasoning |-> "User preference: evening digest delivery",
             confidence |-> Tenths(9)]
       ELSE [time |-> optimalResult.recommendedTime,
             reasoning |-> optimalResult.reasoning,
             confidence |-> optimalResult.confidence]

calculateOptimalDeliveryTime(urgencyLevel) ==
    LET optimalResult == predictOptimalTime(urgencyLevel, "recall")
        predicted == [time |-> optimalResult.recommendedTime,
                      reasoning |-> optimalResult.reasoning,
                      confidence |-> optimalResult.confidence]
    IN IF urgencyLevel = "critical"
       THEN [time |-> now,
             reasoning |-> "Critical safety alerts are delivered immediately",
             confidence |-> ConfScale]
       ELSE IF urgencyLevel = "high" /\ preferences.high.schedule = "immediate"
               /\ ~isInQuietHours
       THEN [time |-> now,
             reasoning |-> "User preference: immediate delivery outside quiet hours",
             confidence |-> Tenths(8)]
       ELSE IF urgencyLevel = "high" /\ preferences.high.schedule = "evening_digest"
       THEN [time |-> getEveningDigestTime,
             reasoning |-> "User preference: evening digest delivery",
             confidence |-> Tenths(9)]
       ELSE predicted

---------------------------------------------------------------------------
(* NotificationService: notification records, the pending Map, delivery *)

priorityOf(urgencyLevel) ==
    IF urgencyLevel = "critical" THEN 10 ELSE IF urgencyLevel = "high" THEN 7 ELSE 4

\* the record scheduleRecallNotification builds; title and body are
\* <<count, text>>, the count being None except in a batch summary
recallNotification(seq, recallId, urgencyLevel, timingResult) ==
    [id |-> <<"recall", recallId, now>>,
     recallId |-> recallId,
     type |-> urgencyLevel,
     title |-> <<None, "personalizedMessage">>,
     body |-> <<None, "hazardDescription">>,
     scheduledFor |-> timingResult.time,
     priority |-> priorityOf(urgencyLevel),
     timingReasoning |-> timingResult.reasoning,
     confidence |-> timingResult.confidence,
     seq |-> seq]

\* the record sendCriticalRecallAlert builds: no timingReasoning, no confidence
criticalAlertNotification(seq, recallId) ==
    [id |-> <<"critical", recallId, now>>,
     recallId |-> recallId,
     type |-> "critical",
     title |-> <<None, "URGENT: productName Safety Alert">>,
     body |-> <<None, "Stop using immediately. hazardDescription">>,
     scheduledFor |-> now,
     priority |-> 10,
     timingReasoning |-> "undefined",
     confidence |-> None,
     seq |-> seq]

\* the summary batchMediumPriorityNotifications builds for n merged records;
\* it answers no request: its seq is 0
batchedNotification(n) ==
    [id |-> <<"batch", 0, now>>,
     recallId |-> 0,
     type |-> "medium",
     title |-> <<n, "Product Safety Updates">>,
     body |-> <<n, "recalls to review for babyName's safety">>,
     scheduledFor |-> now,
     priority |-> 4,
     timingReasoning |-> "undefined",
     confidence |-> None,
     seq |-> 0]

\* Map.has, Map.set, Map.delete on the pending Map (a set of records, one per id)
pendingIds == {n.id : n \in scheduledNotifications}
mapSet(m, n) == {r \in m : r.id # n.id} \cup {n}
mapDelete(m, id) == {r \in m : r.id # id}

\* sendNotification: false without the permission, else the browser shows it.
\* An entry of the log: the record, the time, the result, the caller (via) and,
\* for a batch summary, the seq of the records it replaced.
sendResult == permission = "granted"
sendEntry(notification, via, merged) ==
    [notification |-> notification, at |-> now, ok |-> sendResult,
     via |-> via, merged |-> merged]
sendNotification(notification, via, merged) ==
    sent' = Append(sent, sendEntry(notification, via, merged))

Bool(b) == IF b THEN "true" ELSE "false"
Op(op, urgency, id, seq, ret, n) ==
    [op |-> op, urgency |-> urgency, id |-> id, seq |-> seq, ret |-> ret, n |-> n]
NoId == <<"none", 0, 0>>

---------------------------------------------------------------------------
(* NotificationService: the handlers *)

\* the setTimeout closure: the notification, timingResult.time, urgencyLevel
timerOf(notification) ==
    [seq |-> notification.seq, id |-> notification.id,
     time |-> notification.scheduledFor, urgencyLevel |-> notification.type,
     notification |-> notification]

\* mutant: the critical tier is gated by critical.enabled like the other tiers
isSuppressed_gatesCritical(urgencyLevel) ==
    \/ urgencyLevel = "critical" /\ ~preferences.critical.enabled
    \/ urgencyLevel = "high" /\ ~preferences.high.enabled
    \/ urgencyLevel = "medium" /\ ~preferences.medium.enabled

\* mutant: the check of the medium tier is left out
isSuppressed_highOnly(urgencyLevel) ==
    urgencyLevel = "high" /\ ~preferences.high.enabled

\* the check that the urgency level is enabled; critical always is
isSuppressed(urgencyLevel) ==
    \/ urgencyLevel = "high" /\ ~preferences.high.enabled
    \/ urgencyLevel = "medium" /\ ~preferences.medium.enabled

\* the early return comes before anything is computed; timingResult and
\* notification are computed once and bound as constants
scheduleRecallNotification(recallId, urgencyLevel) ==
    /\ nextSeq <= MaxReq
    /\ IF isSuppressed(urgencyLevel)
       THEN /\ last' = Op("schedule", urgencyLevel, NoId, None, "false", 0)
            /\ UNCHANGED <<scheduledNotifications, timers, sent, nextSeq>>
       ELSE \E timingResult \in {calculateOptimalDeliveryTime(urgencyLevel)} :
            \E notification \in
                  {recallNotification(nextSeq, recallId, urgencyLevel, timingResult)} :
               /\ scheduledNotifications' = mapSet(scheduledNotifications, notification)
               /\ nextSeq' = nextSeq + 1
               /\ IF timingResult.time <= now
                  THEN /\ sendNotification(notification, "schedule", {})
                       /\ timers' = timers
                       /\ last' = Op("schedule", urgencyLevel, notification.id,
                                     notification.seq, Bool(sendResult), 0)
                  ELSE /\ timers' = timers \cup {timerOf(notification)}
                       /\ sent' = sent
                       /\ last' = Op("schedule", urgencyLevel, notification.id,
                                     notification.seq, "true", 0)
    /\ UNCHANGED <<now, permission, preferences, userBehavior, babySchedule,
                   contextualFactors, cancelled, prefUpdates, learnCalls>>

\* mutant: the callback leaves the record in the pending Map
timerCallback_keepsRecord(t) ==
    /\ t \in timers
    /\ now >= t.time
    /\ timers' = timers \ {t}
    /\ IF shouldDeliverNow(t.time, t.urgencyLevel)
       THEN sendNotification(t.notification, "timer", {})
       ELSE sent' = sent
    /\ last' = Op("timer", t.urgencyLevel, t.id, t.seq, "void", 0)
    /\ UNCHANGED <<now, permission, preferences, scheduledNotifications, userBehavior,
                   babySchedule, contextualFactors, cancelled, nextSeq, prefUpdates,
                   learnCalls>>

\* the callback scheduleRecallNotification hands to setTimeout, run once the
\* delay has passed
timerCallback(t) ==
    /\ t \in timers
    /\ now >= t.time
    /\ timers' = timers \ {t}
    /\ IF shouldDeliverNow(t.time, t.urgencyLevel)
       THEN sendNotification(t.notification, "timer", {})
       ELSE sent' = sent
    /\ scheduledNotifications' = mapDelete(scheduledNotifications, t.id)
    /\ last' = Op("timer", t.urgencyLevel, t.id, t.seq, "void", 0)
    /\ UNCHANGED <<now, permission, preferences, userBehavior, babySchedule,
                   contextualFactors, cancelled, nextSeq, prefUpdates,
                   learnCalls>>

sendCriticalRecallAlert(recallId) ==
    LET notification == criticalAlertNotification(nextSeq, recallId)
    IN /\ nextSeq <= MaxReq
       /\ sendNotification(notification, "alert", {})
       /\ nextSeq' = nextSeq + 1
       /\ last' = Op("alert", "critical", notification.id, notification.seq,
                     Bool(sendResult), 0)
       /\ UNCHANGED <<now, permission, preferences, scheduledNotifications, timers,
                      userBehavior, babySchedule, contextualFactors, cancelled, prefUpdates, learnCalls>>

cancelNotification(notificationId) ==
    /\ scheduledNotifications' = mapDelete(scheduledNotifications, notificationId)
    /\ cancelled' = cancelled \cup
            {n.seq : n \in {r \in scheduledNotifications : r.id = notificationId}}
    /\ last' = Op("cancel", "", notificationId, None,
                  Bool(notificationId \in pendingIds), 0)
    /\ UNCHANGED <<now, permission, preferences, timers, userBehavior, babySchedule,
                   contextualFactors, sent, nextSeq, prefUpdates, learnCalls>>

\* mutant: the filter on the type is left out
mediumPending_all == scheduledNotifications

\* Array.from(this.scheduledNotifications.values()).filter(n => n.type === 'medium')
mediumPending == {n \in scheduledNotifications : n.type = "medium"}

batchMediumPriorityNotifications ==
    LET mediumNotifications == mediumPending
        count == Cardinality(mediumNotifications)
    IN /\ IF count = 0
          THEN UNCHANGED <<scheduledNotifications, sent>>
          ELSE /\ scheduledNotifications' = scheduledNotifications \ mediumNotifications
               /\ sendNotification(batchedNotification(count), "batch",
                                   {n.seq : n \in mediumNotifications})
       /\ last' = Op("batch", "medium", NoId, None, "void", count)
       /\ UNCHANGED <<now, permission, preferences, timers, userBehavior, babySchedule,
                      contextualFactors, cancelled, nextSeq, prefUpdates,
                   learnCalls>>

\* the partial preference objects the settings screen and its saved copy pass:
\* one section, or every section at once
QuietHours(e, sh, eh) == [enabled |-> e, start |-> <<sh, 0>>, end |-> <<eh, 0>>]
High(e, s, q) == [enabled |-> e, schedule |-> s, quietHours |-> q]
Medium(e, f) == [enabled |-> e, frequency |-> f, batchWith |-> "development_tips"]
Critical(e) == [enabled |-> e, disabled |-> TRUE]
PartialPreferences ==
    { [high |-> High(TRUE, "evening_digest", QuietHours(TRUE, 18, 20))],
      [high |-> High(TRUE, "next_optimal", QuietHours(FALSE, 22, 7))],
      [medium |-> Medium(TRUE, "immediate")],
      [critical |-> Critical(FALSE),
       high |-> High(FALSE, "immediate", QuietHours(TRUE, 22, 7)),
       medium |-> Medium(FALSE, "daily_digest")] }

\* { ...this.preferences, ...newPreferences }
spread(old, new) ==
    [k \in DOMAIN old \cup DOMAIN new |-> IF k \in DOMAIN new THEN new[k] ELSE old[k]]

\* mutant: the timing engine is synchronised only with enabled quiet hours
updatePreferences_syncWhenEnabled(newPreferences) ==
    LET merged == spread(preferences, newPreferences)
    IN /\ prefUpdates < MaxPrefUpdates
       /\ prefUpdates' = prefUpdates + 1
       /\ preferences' = merged
       /\ IF "high" \in DOMAIN newPreferences
             /\ "quietHours" \in DOMAIN newPreferences.high
             /\ newPreferences.high.quietHours.enabled
          THEN userBehavior' = spread(userBehavior,
                  [quietPeriods |-> << [start |-> merged.high.quietHours.start,
                                        end |-> merged.high.quietHours.end] >>])
          ELSE userBehavior' = userBehavior
       /\ last' = Op("updatePreferences", "", NoId, None, "void", 0)
       /\ UNCHANGED <<now, permission, scheduledNotifications, timers, babySchedule,
                      contextualFactors, sent, cancelled, nextSeq, learnCalls>>

updatePreferences(newPreferences) ==
    LET merged == spread(preferences, newPreferences)
    IN /\ prefUpdates < MaxPrefUpdates
       /\ prefUpdates' = prefUpdates + 1
       /\ preferences' = merged
       /\ IF "high" \in DOMAIN newPreferences
             /\ "quietHours" \in DOMAIN newPreferences.high
          THEN userBehavior' = spread(userBehavior,
                  [quietPeriods |-> << [start |-> merged.high.quietHours.start,
                                        end |-> merged.high.quietHours.end] >>])
          ELSE userBehavior' = userBehavior
       /\ last' = Op("updatePreferences", "", NoId, None, "void", 0)
       /\ UNCHANGED <<now, permission, scheduledNotifications, timers, babySchedule,
                      contextualFactors, sent, cancelled, nextSeq, learnCalls>>

---------------------------------------------------------------------------
(* The environment: the clock *)

\* the times of day at which the environment acts
ObservedTimes == { <<14, 0>>, <<19, 0>>, <<23, 30>> }

\* the next occurrence of a time of day after t
nextAt(t, hm) ==
    LET today == setHours(t, hm[1], hm[2])
    IN IF today > t THEN today ELSE addDay(today)

\* the clock moves on to an observed time of day or to the time a timer is set
\* for; a timer runs when its delay has passed, so the clock does not pass it
Tick ==
    /\ \E t \in {nextAt(now, hm) : hm \in ObservedTimes} \cup {tm.time : tm \in timers} :
          /\ t > now
          /\ t < At(MaxDay + 1, 0, 0)
          /\ \A tm \in timers : t <= tm.time
          /\ now' = t
    /\ last' = Op("tick", "", NoId, None, "void", 0)
    /\ UNCHANGED <<permission, preferences, scheduledNotifications, timers,
                   userBehavior, babySchedule, contextualFactors, sent, cancelled,
                   nextSeq, prefUpdates, learnCalls>>

---------------------------------------------------------------------------
(* The specification *)

\* the service is constructed on a Friday or a Saturday
StartTimes == {At(5, 14, 0)}

Init ==
    /\ now \in StartTimes
    /\ permission \in {"granted", "denied"}
    /\ preferences = DefaultPreferences
    /\ scheduledNotifications = {}
    /\ timers = {}
    /\ userBehavior = DefaultUserBehavior(now)
    /\ babySchedule = DefaultBabySchedule
    /\ contextualFactors = DefaultContextualFactors(now)
    /\ sent = <<>>
    /\ cancelled = {}
    /\ nextSeq = 1
    /\ prefUpdates = 0
    /\ learnCalls = 0
    /\ last = Op("constructor", "", NoId, None, "void", 0)

\* the ids a caller can hold: of a pending record, of a timer, of a sent record
KnownIds == pendingIds \cup {t.id : t \in timers}
            \cup {sent[i].notification.id : i \in 1..Len(sent)}

Next ==
    \/ \E r \in RecallIds, u \in Urgencies : scheduleRecallNotification(r, u)
    \/ \E r \in RecallIds : sendCriticalRecallAlert(r)
    \/ \E t \in timers : timerCallback(t)
    \/ \E id \in KnownIds : cancelNotification(id)
    \/ batchMediumPriorityNotifications
    \/ \E p \in PartialPreferences : updatePreferences(p)
    \/ Tick

Spec == Init /\ [][Next]_vars

---------------------------------------------------------------------------
(* Properties *)

\* the entries of the delivery log, and the record a request built
Sent == {sent[i] : i \in 1..Len(sent)}
lastSent == sent[Len(sent)]
recordOf(seq) == {n \in scheduledNotifications : n.seq = seq}
isCriticalRequest ==
    last.op \in {"schedule", "alert"} /\ last.urgency = "critical"

\* what every critical request does, confidenceOfAlert being the confidence of
\* the record of sendCriticalRecallAlert
criticalDispatched(confidenceOfAlert) ==
    isCriticalRequest =>
        /\ last.seq # None
        /\ Len(sent) > 0
        /\ lastSent.notification.seq = last.seq
        /\ lastSent.notification.type = "critical"
        /\ lastSent.notification.scheduledFor <= now
        /\ lastSent.at = now
        /\ last.ret = Bool(lastSent.ok)
        /\ \A t \in timers : t.seq # last.seq
        /\ lastSent.notification.confidence =
              IF last.op = "schedule" THEN ConfScale ELSE confidenceOfAlert

\* C1 as stated: under every preferences configuration a critical request
\* (scheduleRecallNotification with urgency critical, or sendCriticalRecallAlert)
\* is not suppressed and not held: its record has scheduledFor <= now and
\* confidence 1.0, it is handed to sendNotification in the same handler, and no
\* timer is registered for it.
C1_CriticalConfidenceOne == criticalDispatched(ConfScale)

\* C1 amended: as above, but the confidence 1.0 is that of the record of
\* scheduleRecallNotification; the record sendCriticalRecallAlert builds carries
\* no confidence.
C1_CriticalNeverHeld == criticalDispatched(None)

\* a critical request served while every tier is switched off, critical.enabled
\* included, inside the quiet hours
C1_Witness ==
    /\ isCriticalRequest
    /\ last.op = "schedule"
    /\ ~preferences.critical.enabled
    /\ ~preferences.high.enabled
    /\ ~preferences.medium.enabled
    /\ isInQuietHours
    /\ Len(sent) > 0
    /\ lastSent.notification.seq = last.seq

\* C2: a notification cancelled by cancelNotification before its timer runs is
\* never delivered: the callback of a cancelled notification sends nothing.
C2_CancelledNeverDelivered ==
    \A e \in Sent : e.via = "timer" => e.notification.seq \notin cancelled

\* C3: a held notification is delivered at most once: once its timer has sent
\* it, its id is not in the pending Map, cancelNotification of that id returns
\* false, and the log holds no second delivery of it.
C3_NoDoubleDelivery ==
    \A i \in 1..Len(sent) :
        sent[i].via = "timer" =>
            /\ sent[i].notification.id \notin pendingIds
            /\ \A t \in timers : t.seq # sent[i].notification.seq
            /\ \A j \in 1..Len(sent) :
                  sent[j].notification.seq = sent[i].notification.seq => j = i
            /\ (last.op = "cancel" /\ last.id = sent[i].notification.id)
                  => last.ret = "false"

\* cancelNotification called for a notification its timer has sent
C3_Witness ==
    \E e \in Sent :
        /\ e.via = "timer"
        /\ e.ok
        /\ last.op = "cancel"
        /\ last.id = e.notification.id

\* C4: a notification that has been dispatched, by scheduleRecallNotification
\* itself or by its timer, is not in the pending Map afterwards.
C4_DispatchedNotPending ==
    \A e \in Sent :
        (e.via \in {"schedule", "timer"} /\ e.ok)
            => e.notification.id \notin pendingIds

\* C5: the scheduledFor computed for an accepted high or medium request is
\* outside every quiet period of the behaviour profile.
C5_ScheduledOutsideQuietPeriods ==
    (last.op = "schedule" /\ last.urgency \in {"high", "medium"} /\ last.seq # None)
        => \A n \in recordOf(last.seq) : ~inAnyQuietPeriod(n.scheduledFor)

\* C6: scheduleRecallNotification for a disabled tier (high with high.enabled
\* false, medium with medium.enabled false) returns false and adds no record,
\* registers no timer, delivers nothing and leaves the behaviour profile alone.
C6_SuppressedLeavesNoTrace ==
    [][ ( /\ last'.op = "schedule"
          /\ \/ last'.urgency = "high" /\ ~preferences.high.enabled
             \/ last'.urgency = "medium" /\ ~preferences.medium.enabled )
        => /\ last'.ret = "false"
           /\ last'.seq = None
           /\ UNCHANGED <<scheduledNotifications, timers, sent, userBehavior,
                          babySchedule, preferences, nextSeq>> ]_vars

\* a suppressed high request while another record is pending
C6_Witness ==
    /\ last.op = "schedule"
    /\ last.urgency = "high"
    /\ last.ret = "false"
    /\ last.seq = None
    /\ ~preferences.high.enabled
    /\ scheduledNotifications # {}

\* C7: whatever updatePreferences is given, critical.enabled stays true.
C7_CriticalStaysEnabled == preferences.critical.enabled

\* C8: batchMediumPriorityNotifications with n >= 1 medium records pending sends
\* exactly one summary whose title and body name n, removes the n medium
\* records and leaves the critical and high records as they were; with n = 0 it
\* sends nothing and leaves the pending Map as it was.
C8_BatchOneSummary ==
    [][ last'.op = "batch" =>
          LET medium == {n \in scheduledNotifications : n.type = "medium"}
              count == Cardinality(medium)
          IN IF count = 0
             THEN UNCHANGED <<scheduledNotifications, sent>>
             ELSE /\ Len(sent') = Len(sent) + 1
                  /\ SubSeq(sent', 1, Len(sent)) = sent
                  /\ sent'[Len(sent')].via = "batch"
                  /\ sent'[Len(sent')].notification.title[1] = count
                  /\ sent'[Len(sent')].notification.body[1] = count
                  /\ scheduledNotifications' = scheduledNotifications \ medium ]_vars

\* a batch run that merged a medium record and left another record pending
C8_Witness ==
    /\ last.op = "batch"
    /\ last.n >= 1
    /\ lastSent.via = "batch"
    /\ \E n \in scheduledNotifications : n.type \in {"critical", "high"}

\* C9: a notification batchMediumPriorityNotifications merged into a summary is
\* not delivered on its own afterwards by its timer.
C9_BatchedNotDeliveredAlone ==
    \A i \in 1..Len(sent) : \A j \in 1..Len(sent) :
        (i < j /\ sent[i].via = "batch" /\ sent[j].via = "timer")
            => sent[j].notification.seq \notin sent[i].merged

\* C10: with high.schedule = evening_digest an accepted high request is
\* scheduled for 19:00 today when that is still to come, else for 19:00
\* tomorrow, with confidence 0.9.
C10_EveningDigest ==
    ( /\ last.op = "schedule" /\ last.urgency = "high" /\ last.seq # None
      /\ preferences.high.schedule = "evening_digest" )
        => \A n \in recordOf(last.seq) :
              LET today19 == At(now \div MinutesPerDay, 19, 0)
              IN /\ n.scheduledFor = IF today19 > now THEN today19
                                      ELSE today19 + MinutesPerDay
                 /\ n.confidence = Tenths(9)
                 /\ \E t \in timers : t.seq = n.seq /\ t.time = n.scheduledFor

\* a high request made at 19:00 sharp, scheduled for 19:00 of the next day
C10_Witness ==
    /\ last.op = "schedule" /\ last.urgency = "high" /\ last.seq # None
    /\ preferences.high.schedule = "evening_digest"
    /\ getHours(now) = 19 /\ getMinutes(now) = 0
    /\ \E n \in recordOf(last.seq) : n.scheduledFor = now + MinutesPerDay

---------------------------------------------------------------------------
(* The preference policy: every schedule, window and frequency *)

\* an optional field that is left out: undefined
Undefined == <<>>

\* NotificationService.updateBabySchedule: the fields left out are handed on
\* as undefined and overwrite the stored ones; naps get start = end = time
BabyScheduleInputs ==
    { [bedtime |-> <<19, 30>>, wakeup |-> Undefined, napTimes |-> << <<9, 30>> >>],
      [bedtime |-> <<25, 0>>, wakeup |-> <<7, 75>>, napTimes |-> << <<13, 61>> >>] }

updateBabySchedule(schedule) ==
    /\ babySchedule' = spread(babySchedule,
          [bedtime |-> IF schedule.bedtime # Undefined
                       THEN [time |-> schedule.bedtime, consistency |-> 80]
                       ELSE Undefined,
           wakeupTime |-> IF schedule.wakeup # Undefined
                          THEN [time |-> schedule.wakeup, consistency |-> 80]
                          ELSE Undefined,
           napTimes |-> [i \in 1..Len(schedule.napTimes) |->
                            [start |-> schedule.napTimes[i],
                             end |-> schedule.napTimes[i],
                             reliability |-> 70]]])
    /\ last' = Op("updateBabySchedule", "", NoId, None, "void", 0)
    /\ UNCHANGED <<now, permission, preferences, scheduledNotifications, timers,
                   userBehavior, contextualFactors, sent, cancelled, nextSeq,
                   prefUpdates, learnCalls>>

\* the preference objects of the settings screen: one section at a time
PolicyWindows == { <<22, 7>>, <<9, 17>>, <<25, 7>> }
PolicyPreferences ==
    { [high |-> High(TRUE, s, QuietHours(e, w[1], w[2]))] :
          s \in {"immediate", "next_optimal", "evening_digest"},
          e \in BOOLEAN, w \in PolicyWindows }
    \cup { [medium |-> Medium(TRUE, f)] : f \in {"immediate", "daily_digest", "weekly"} }

\* the times of a Friday at which the service is constructed
PolicyTimes == { At(5, 3, 0), At(5, 12, 0), At(5, 15, 0), At(5, 23, 30) }

PolicyInit ==
    /\ now \in PolicyTimes
    /\ permission \in {"granted", "denied"}
    /\ preferences = DefaultPreferences
    /\ scheduledNotifications = {}
    /\ timers = {}
    /\ userBehavior = DefaultUserBehavior(now)
    /\ babySchedule = DefaultBabySchedule
    /\ contextualFactors = DefaultContextualFactors(now)
    /\ sent = <<>>
    /\ cancelled = {}
    /\ nextSeq = 1
    /\ prefUpdates = 0
    /\ learnCalls = 0
    /\ last = Op("constructor", "", NoId, None, "void", 0)

PolicyNext ==
    \/ \E p \in PolicyPreferences : updatePreferences(p)
    \/ \E b \in BabyScheduleInputs : updateBabySchedule(b)
    \/ \E r \in RecallIds, u \in {"high", "medium"} : scheduleRecallNotification(r, u)

PolicySpec == PolicyInit /\ [][PolicyNext]_vars

---------------------------------------------------------------------------
(* Properties of the preference policy *)

\* an accepted request of the given urgency was the last handler
accepted(urgencyLevel) ==
    last.op = "schedule" /\ last.urgency = urgencyLevel /\ last.seq # None

\* the record was handed to delivery by scheduleRecallNotification itself
dispatchedNow(n) ==
    /\ Len(sent) > 0
    /\ lastSent.notification = n
    /\ lastSent.via = "schedule"
    /\ lastSent.at = now
    /\ \A t \in timers : t.seq # n.seq

\* the record carries the result of the predictor and the arbiter
fromPredictor(n) ==
    LET r == predictOptimalTime(n.type, "recall")
    IN /\ n.scheduledFor = r.recommendedTime
       /\ n.confidence = r.confidence
       /\ n.timingReasoning = r.reasoning

\* the current minute of the day lies in the enabled window high.quietHours
inHighQuietWindow ==
    LET q == preferences.high.quietHours
        t == (now % MinutesPerDay)
        s == q.start[1] * MinutesPerHour + q.start[2]
        e == q.end[1] * MinutesPerHour + q.end[2]
    IN q.enabled /\ IF s <= e THEN s <= t /\ t <= e ELSE t >= s \/ t <= e

\* C11: with high.schedule = immediate, an accepted high request made outside
\* the high.quietHours window (or with the quiet hours disabled) is scheduled for
\* now with confidence 0.8 and the reasoning "immediate delivery outside quiet
\* hours" and is dispatched in the same handler; made inside the enabled window
\* it gets the result of the predictor and the arbiter.
C11_ImmediateOutsideQuietHours ==
    (accepted("high") /\ preferences.high.schedule = "immediate")
        => /\ recordOf(last.seq) # {}
           /\ \A n \in recordOf(last.seq) :
                 IF inHighQuietWindow
                 THEN fromPredictor(n)
                 ELSE /\ n.scheduledFor = now
                      /\ n.confidence = Tenths(8)
                      /\ n.timingReasoning =
                            "User preference: immediate delivery outside quiet hours"
                      /\ dispatchedNow(n)

\* a high request at 23:30 inside the quiet hours 22:00-07:00, held by the
\* predictor's result
C11_Witness ==
    /\ accepted("high") /\ preferences.high.schedule = "immediate"
    /\ inHighQuietWindow
    /\ getHours(now) = 23
    /\ \E n \in recordOf(last.seq) : n.scheduledFor > now /\ fromPredictor(n)

\* C12: the medium.frequency preference governs an accepted medium request:
\* with frequency = immediate it is scheduled for now and dispatched in the
\* same handler; with daily_digest or weekly its time comes from the predictor
\* and the arbiter.
C12_MediumFrequencyApplied ==
    accepted("medium")
        => /\ recordOf(last.seq) # {}
           /\ \A n \in recordOf(last.seq) :
                 IF preferences.medium.frequency = "immediate"
                 THEN n.scheduledFor = now /\ dispatchedNow(n)
                 ELSE fromPredictor(n)

---------------------------------------------------------------------------
(* The two quiet-window tests, at every minute of a day *)

\* the windows the settings screen hands to updatePreferences
QuietWindows ==
    { Window(22, 0, 7, 0), Window(13, 0, 15, 0), Window(22, 15, 7, 45),
      Window(9, 30, 9, 30), Window(0, 0, 23, 59) }
QuietPreferences ==
    { [high |-> High(TRUE, "immediate",
                     [enabled |-> e, start |-> w.start, end |-> w.end])] :
          e \in BOOLEAN, w \in QuietWindows }

\* NotificationService.isInQuietHours at the current time
callIsInQuietHours ==
    /\ last' = Op("isInQuietHours", "", NoId, None, Bool(isInQuietHours), 0)
    /\ UNCHANGED <<now, permission, preferences, scheduledNotifications, timers,
                   userBehavior, babySchedule, contextualFactors, sent, cancelled,
                   nextSeq, prefUpdates, learnCalls>>

\* SmartNotificationTiming.isTimeInQuietPeriod at the current time, for the
\* i-th quiet period of the profile
callIsTimeInQuietPeriod(i) ==
    /\ i \in 1..Len(userBehavior.quietPeriods)
    /\ last' = Op("isTimeInQuietPeriod", "", NoId, None,
                  Bool(isTimeInQuietPeriod(now, userBehavior.quietPeriods[i])), i)
    /\ UNCHANGED <<now, permission, preferences, scheduledNotifications, timers,
                   userBehavior, babySchedule, contextualFactors, sent, cancelled,
                   nextSeq, prefUpdates, learnCalls>>

\* every minute of a Friday
MinutesOfDay == { At(5, h, m) : h \in 0..(HoursPerDay - 1), m \in 0..(MinutesPerHour - 1) }

QuietInit ==
    /\ now \in MinutesOfDay
    /\ permission = "granted"
    /\ preferences = DefaultPreferences
    /\ scheduledNotifications = {}
    /\ timers = {}
    /\ userBehavior = DefaultUserBehavior(now)
    /\ babySchedule = DefaultBabySchedule
    /\ contextualFactors = DefaultContextualFactors(now)
    /\ sent = <<>>
    /\ cancelled = {}
    /\ nextSeq = 1
    /\ prefUpdates = 0
    /\ learnCalls = 0
    /\ last = Op("constructor", "", NoId, None, "void", 0)

QuietNext ==
    \/ \E p \in QuietPreferences : updatePreferences(p)
    \/ callIsInQuietHours
    \/ \E i \in 1..2 : callIsTimeInQuietPeriod(i)

QuietSpec == QuietInit /\ [][QuietNext]_vars

\* the window test of the specification on minutes of the day
inWindow(t, start, end) ==
    LET s == start[1] * MinutesPerHour + start[2]
        e == end[1] * MinutesPerHour + end[2]
    IN \/ s <= e /\ s <= t /\ t <= e
       \/ s > e /\ (t >= s \/ t <= e)

\* C13: at every minute t of the day and for every window, isInQuietHours
\* (with the quiet hours enabled) and isTimeInQuietPeriod are true exactly when
\* start <= t <= end for start <= end, and when t >= start or t <= end for
\* start > end; isInQuietHours is false at every t when the quiet hours are
\* disabled.
C13_QuietWindowTests ==
    LET t == now % MinutesPerDay
        q == preferences.high.quietHours
    IN /\ last.op = "isInQuietHours"
            => last.ret = Bool(q.enabled /\ inWindow(t, q.start, q.end))
       /\ last.op = "isTimeInQuietPeriod"
            => last.ret = Bool(inWindow(t, userBehavior.quietPeriods[last.n].start,
                                        userBehavior.quietPeriods[last.n].end))

\* both tests answer true at 03:00 for the window 22:15-07:45
C13_Witness ==
    /\ getHours(now) = 3 /\ getMinutes(now) = 0
    /\ preferences.high.quietHours.enabled
    /\ preferences.high.quietHours.start = <<22, 15>>
    /\ userBehavior.quietPeriods = << [start |-> <<22, 15>>, end |-> <<7, 45>>] >>
    /\ last.op \in {"isInQuietHours", "isTimeInQuietPeriod"}
    /\ last.ret = "true"

---------------------------------------------------------------------------
(* The timing engine called directly: predictor, arbiter, batching *)

\* SmartNotificationTiming.updateUserBehavior: { ...userBehavior, ...behaviorData }
updateUserBehavior(behaviorData) ==
    /\ userBehavior' = spread(userBehavior, behaviorData)
    /\ last' = Op("updateUserBehavior", "", NoId, None, "void", 0)
    /\ UNCHANGED <<now, permission, preferences, scheduledNotifications, timers,
                   babySchedule, contextualFactors, sent, cancelled, nextSeq,
                   prefUpdates, learnCalls>>

\* a call of predictOptimalTime; the result is kept as
\* <<recommendedTime, confidence>> and the reasoning
callPredictOptimalTime(urgencyLevel, contentType) ==
    /\ \E r \in {predictOptimalTime(urgencyLevel, contentType)} :
          last' = Op("predictOptimalTime", urgencyLevel,
                     <<contentType, r.recommendedTime, r.confidence>>, None,
                     r.reasoning, 0)
    /\ UNCHANGED <<now, permission, preferences, scheduledNotifications, timers,
                   userBehavior, babySchedule, contextualFactors, sent, cancelled,
                   nextSeq, prefUpdates, learnCalls>>

\* 2 * 60 * 60 * 1000 ms, in minutes
MinIntervalMinutes == 2 * MinutesPerHour

\* the Date batchNonUrgentNotifications returns
batchTime ==
    LET optimalResult == predictOptimalTime("medium", "general")
        lastNotification == userBehavior.lastActiveTime
    IN IF optimalResult.recommendedTime - lastNotification < MinIntervalMinutes
       THEN findNextOptimalTime(lastNotification + MinIntervalMinutes, "medium")
       ELSE optimalResult.recommendedTime

batchNonUrgentNotifications ==
    /\ last' = Op("batchNonUrgentNotifications", "medium", NoId, None, "void", batchTime)
    /\ UNCHANGED <<now, permission, preferences, scheduledNotifications, timers,
                   userBehavior, babySchedule, contextualFactors, sent, cancelled,
                   nextSeq, prefUpdates, learnCalls>>

\* the response rates updateUserBehavior is given: the defaults with the rate
\* of one hour replaced, rates that are all low, no rates at all
DefaultRates == DefaultUserBehavior(0).responseRates
LowRates == [h \in DOMAIN DefaultRates |-> Rate(20)]
NoRates == [h \in {} |-> 0]
RateMenu ==
    { (h :> Rate(r)) @@ DefaultRates : h \in {13, 21}, r \in {0, 10, 50, 100} }
    \cup {LowRates, NoRates}
BehaviorUpdates ==
    { [responseRates |-> rr] : rr \in RateMenu }
    \cup { [quietPeriods |-> << Window(7, 0, 9, 0) >>] }

\* the service was constructed at one of these times and the clock now reads
\* the same or a later one
TimingTimes ==
    { At(5, 3, 0), At(5, 7, 10), At(5, 12, 10), At(5, 20, 30), At(6, 9, 0), At(6, 23, 30),
      At(7, 12, 0) }

TimingInit ==
    /\ now \in TimingTimes
    /\ permission = "granted"
    /\ preferences = DefaultPreferences
    /\ scheduledNotifications = {}
    /\ timers = {}
    /\ \E c \in TimingTimes :
          /\ c <= now
          /\ userBehavior = DefaultUserBehavior(c)
          /\ contextualFactors = DefaultContextualFactors(c)
    /\ babySchedule = DefaultBabySchedule
    /\ sent = <<>>
    /\ cancelled = {}
    /\ nextSeq = 1
    /\ prefUpdates = 0
    /\ learnCalls = 0
    /\ last = Op("constructor", "", NoId, None, "void", 0)

TimingNext ==
    \/ \E b \in BehaviorUpdates : updateUserBehavior(b)
    \/ \E u \in {"high", "medium"}, c \in {"recall", "general"} : callPredictOptimalTime(u, c)
    \/ batchNonUrgentNotifications

TimingSpec == TimingInit /\ [][TimingNext]_vars

---------------------------------------------------------------------------
(* Properties of the timing engine *)

\* the times t + i hours, 1 <= i <= cap
hourlySteps(t, cap) == { t + i * MinutesPerHour : i \in 1..cap }

\* the documented fallback: the next active hour of the weekday pattern of t,
\* on the day of t, one day later if that is earlier than now + 1 hour
documentedFallback(t) ==
    LET pattern == IF getDay(t) \in DOMAIN userBehavior.weeklyPattern
                   THEN userBehavior.weeklyPattern[getDay(t)]
                   ELSE userBehavior.appUsageHours
        after == { i \in 1..Len(pattern) : pattern[i] > getHours(t) }
        hour == IF after = {} THEN pattern[1]
                ELSE pattern[CHOOSE i \in after : \A j \in after : i <= j]
        time == At(t \div MinutesPerDay, hour, 0)
    IN IF time < now + MinutesPerHour THEN time + MinutesPerDay ELSE time

\* what findNextOptimalTime(t, urgency) may return
delayedTimes(t, urgencyLevel) ==
    hourlySteps(t, IF urgencyLevel = "high" THEN 6 ELSE 24) \cup {documentedFallback(t)}

\* the reasonings of a prediction the arbiter delayed
DelayReasons ==
    { "Proposed time conflicts with quiet hours",
      "Baby is likely sleeping or in a fussy period",
      "User historically unresponsive at this time" }

C15_ConfidenceMonotone ==
    [][ ( /\ last'.op = "updateUserBehavior"
          /\ babySchedule' = babySchedule
          /\ userBehavior'.appUsageHours = userBehavior.appUsageHours )
        => \A h \in 0..(HoursPerDay - 1), u \in {"high", "medium"} :
              ( /\ h \in DOMAIN userBehavior.responseRates
                /\ h \in DOMAIN userBehavior'.responseRates
                /\ userBehavior.responseRates[h] <= userBehavior'.responseRates[h] )
              => calculateConfidence(h, u) <= calculateConfidence(h, u)' ]_vars

---------------------------------------------------------------------------
(* Properties of the configuration updates *)

\* a time string "HH:MM" with 0 <= h <= 23 and 0 <= m <= 59
wellFormed(timeStr) ==
    /\ Len(timeStr) = 2
    /\ timeStr[1] \in 0..23
    /\ timeStr[2] \in 0..59

\* the time strings of the stored configuration
storedTimes ==
    {preferences.high.quietHours.start, preferences.high.quietHours.end}
    \cup {userBehavior.quietPeriods[i].start : i \in 1..Len(userBehavior.quietPeriods)}
    \cup {userBehavior.quietPeriods[i].end : i \in 1..Len(userBehavior.quietPeriods)}
    \cup {babySchedule.napTimes[i].start : i \in 1..Len(babySchedule.napTimes)}
    \cup {babySchedule.napTimes[i].end : i \in 1..Len(babySchedule.napTimes)}
    \cup (IF DOMAIN babySchedule.bedtime = {} THEN {} ELSE {babySchedule.bedtime.time})
    \cup (IF DOMAIN babySchedule.wakeupTime = {} THEN {} ELSE {babySchedule.wakeupTime.time})

\* C16: an updatePreferences or updateBabySchedule call that carries a
\* malformed time string is rejected and the stored preferences, quiet periods
\* and baby schedule stay as they were: the stored configuration, well formed
\* at construction, never holds a malformed time string.
C16_MalformedRejected == \A t \in storedTimes : wellFormed(t)

---------------------------------------------------------------------------
(* Properties of delivery failure, feedback and queries *)

\* the step ran sendNotification once and it returned false
deliveryFailed ==
    /\ Len(sent') = Len(sent) + 1
    /\ ~sent'[Len(sent')].ok

\* C17: when sendNotification returns false the scheduler does not retry and
\* keeps the record: after a failed send on the immediate path the record of
\* the request is in the pending Map, and after a failed send by the timer the
\* record that was pending is still pending.
C17_FailedDeliveryKeepsRecord ==
    [][ /\ Len(sent') <= Len(sent) + 1
        /\ (last'.op = "schedule" /\ deliveryFailed)
              => \E n \in scheduledNotifications' : n.seq = last'.seq
        /\ (last'.op = "timer" /\ deliveryFailed)
              => \A n \in scheduledNotifications :
                    n.seq = last'.seq => n \in scheduledNotifications' ]_vars

---------------------------------------------------------------------------
(* Learning from the outcome of a notification *)

InteractionActions == {"opened", "dismissed", "acted"}

\* actionTaken === 'acted' ? 1 : actionTaken === 'opened' ? 0.7 : 0.2, in tenths
responseValue(actionTaken) ==
    IF actionTaken = "acted" THEN 10 ELSE IF actionTaken = "opened" THEN 7 ELSE 2

\* the profile after recordNotificationResponse: for the hour of deliveredAt,
\* rate * 0.8 + value * 0.2 and averageTime * 0.8 + responseTime * 0.2
recordNotificationResponse(deliveredAt, respondedAt, actionTaken) ==
    LET hour == getHours(deliveredAt)
        responseTime == respondedAt - deliveredAt
        currentRate == responseRateAt(hour)
        currentAvgTime == avgResponseTimeAt(hour)
        newRate == (currentRate * 8
                    + responseValue(actionTaken) * (RateScale \div 10) * 2) \div 10
        newAvgTime == (currentAvgTime * 8 + responseTime * RateScale * 2) \div 10
    IN [userBehavior EXCEPT
          !.responseRates = (hour :> newRate) @@ userBehavior.responseRates,
          !.averageResponseTime = (hour :> newAvgTime) @@ userBehavior.averageResponseTime]

\* scheduledNotifications.get(notificationId): the pending record of that id
recordNotificationInteraction(notificationId, action) ==
    /\ learnCalls < MaxLearn
    /\ learnCalls' = learnCalls + 1
    /\ IF notificationId \in pendingIds
       THEN \E notification \in {n \in scheduledNotifications : n.id = notificationId} :
               userBehavior' = recordNotificationResponse(notification.scheduledFor,
                                                          now, action)
       ELSE userBehavior' = userBehavior
    /\ last' = Op("recordNotificationInteraction", "", notificationId, None, "void",
                  responseValue(action))
    /\ UNCHANGED <<now, permission, preferences, scheduledNotifications, timers,
                   babySchedule, contextualFactors, sent, cancelled, nextSeq,
                   prefUpdates>>

LearnNext ==
    \/ \E r \in RecallIds, u \in Urgencies : scheduleRecallNotification(r, u)
    \/ \E t \in timers : timerCallback(t)
    \/ \E id \in KnownIds, a \in InteractionActions : recordNotificationInteraction(id, a)
    \/ Tick

LearnSpec == Init /\ [][LearnNext]_vars

\* the stored rate and average response time of an hour, 0.5 and 15 minutes
\* when the hour has no entry
storedRate(b, h) ==
    IF h \in DOMAIN b.responseRates /\ b.responseRates[h] # 0
    THEN b.responseRates[h] ELSE RateScale \div 2
storedAvgTime(b, h) ==
    IF h \in DOMAIN b.averageResponseTime /\ b.averageResponseTime[h] # 0
    THEN b.averageResponseTime[h] ELSE 15 * RateScale

\* the step folded the outcome (signal in tenths, response time in minutes)
\* into the entries of hour h
outcomeLearned(h, signal, responseTime) ==
    /\ h \in DOMAIN userBehavior'.responseRates
    /\ h \in DOMAIN userBehavior'.averageResponseTime
    /\ userBehavior'.responseRates[h] * 10
          = storedRate(userBehavior, h) * 8 + signal * (RateScale \div 10) * 2
    /\ userBehavior'.averageResponseTime[h] * 10
          = storedAvgTime(userBehavior, h) * 8 + responseTime * RateScale * 2

\* no other request built the id of the delivered notification e
uniqueId(e) ==
    /\ \A n \in scheduledNotifications :
          n.id = e.notification.id => n.seq = e.notification.seq
    /\ \A t \in timers : t.id = e.notification.id => t.seq = e.notification.seq
    /\ \A f \in Sent :
          f.notification.id = e.notification.id => f.notification.seq = e.notification.seq

\* the step is recordNotificationInteraction for the delivered notification e
interactionFor(e, vias) ==
    /\ last'.op = "recordNotificationInteraction"
    /\ e.ok
    /\ e.via \in vias
    /\ e.notification.id = last'.id
    /\ uniqueId(e)

\* C18: recordNotificationInteraction for a notification that was delivered,
\* at once or by its timer, updates the response rate and the average
\* response time of the hour of its delivery; no outcome is ignored.
C18_OutcomeLearned ==
    [][ \A e \in Sent :
           interactionFor(e, {"schedule", "timer"})
              => outcomeLearned(getHours(e.at), last'.n, now - e.at) ]_vars

---------------------------------------------------------------------------
(* The query of the pending notifications *)

\* the values of the Map in the order of their insertion
RECURSIVE bySeq(_)
bySeq(S) ==
    IF S = {} THEN <<>>
    ELSE LET first == CHOOSE n \in S : \A m \in S : n.seq <= m.seq
         IN <<first>> \o bySeq(S \ {first})

\* mutant: the sort is left out
sortByScheduledFor_unsorted(list) == list

\* Array.prototype.sort((a, b) => a.scheduledFor - b.scheduledFor): stable,
\* so equal times keep the order of the list
RECURSIVE sortByScheduledFor(_)
sortByScheduledFor(list) ==
    IF list = <<>> THEN <<>>
    ELSE LET least == CHOOSE i \in 1..Len(list) :
                 \A j \in 1..Len(list) :
                    \/ list[i].scheduledFor < list[j].scheduledFor
                    \/ list[i].scheduledFor = list[j].scheduledFor /\ i <= j
             rest == [k \in 1..(Len(list) - 1) |->
                         IF k < least THEN list[k] ELSE list[k + 1]]
         IN <<list[least]>> \o sortByScheduledFor(rest)

getScheduledNotifications ==
    /\ last' = Op("getScheduledNotifications", "", NoId, None,
                  sortByScheduledFor(bySeq(scheduledNotifications)),
                  Cardinality(scheduledNotifications))
    /\ UNCHANGED <<now, permission, preferences, scheduledNotifications, timers,
                   userBehavior, babySchedule, contextualFactors, sent, cancelled,
                   nextSeq, prefUpdates, learnCalls>>

QueryNext ==
    \/ \E r \in RecallIds, u \in Urgencies : scheduleRecallNotification(r, u)
    \/ \E t \in timers : timerCallback(t)
    \/ \E id \in KnownIds : cancelNotification(id)
    \/ getScheduledNotifications
    \/ Tick

QuerySpec == Init /\ [][QueryNext]_vars

\* C19: getScheduledNotifications returns exactly the records of the pending
\* Map, each once, in the order of non-decreasing scheduledFor, and leaves the
\* pending Map as it was.
C19_PendingSortedByTime ==
    [][ last'.op = "getScheduledNotifications"
        => /\ Len(last'.ret) = Cardinality(scheduledNotifications)
           /\ {last'.ret[i] : i \in 1..Len(last'.ret)} = scheduledNotifications
           /\ \A i \in 1..Len(last'.ret) : \A j \in 1..Len(last'.ret) :
                 i < j => last'.ret[i].scheduledFor <= last'.ret[j].scheduledFor
           /\ scheduledNotifications' = scheduledNotifications ]_vars

\* a query that lists a later request before an earlier one that is held
\* for a later time
C19_Witness ==
    /\ last.op = "getScheduledNotifications"
    /\ last.n = 2
    /\ last.ret[1].seq > last.ret[2].seq
    /\ last.ret[1].scheduledFor < last.ret[2].scheduledFor

---------------------------------------------------------------------------
(* The re-check of a held notification *)

\* scheduled times around the clock, in minutes from now
DeliverOffsets == {0 - MinutesPerHour, 0, DeliverNowSlackMinutes,
                   DeliverNowSlackMinutes + 1, 3 * MinutesPerHour,
                   10 * MinutesPerHour}

\* a call of the public shouldDeliverNow(scheduledTime, urgencyLevel)
callShouldDeliverNow(scheduledTime, urgencyLevel) ==
    /\ last' = Op("shouldDeliverNow", urgencyLevel, NoId, None,
                  Bool(shouldDeliverNow(scheduledTime, urgencyLevel)),
                  scheduledTime)
    /\ UNCHANGED <<now, permission, preferences, scheduledNotifications, timers,
                   userBehavior, babySchedule, contextualFactors, sent, cancelled,
                   nextSeq, prefUpdates, learnCalls>>

DeliverNext ==
    \/ \E r \in RecallIds, u \in Urgencies : scheduleRecallNotification(r, u)
    \/ \E t \in timers : timerCallback(t)
    \/ \E d \in DeliverOffsets, u \in Urgencies : callShouldDeliverNow(now + d, u)
    \/ Tick

DeliverSpec == Init /\ [][DeliverNext]_vars

\* the three cases of the re-check, at the clock of the current state
dueOrBetterNow(scheduledTime, urgencyLevel) ==
    \/ urgencyLevel = "critical"
    \/ scheduledTime <= now + 5
    \/ /\ urgencyLevel = "high"
       /\ calculateConfidence(getHours(now), "high") * 10
            > calculateConfidence(getHours(scheduledTime), "high") * 10 + 2 * ConfScale

\* C20: a timer that fires hands its notification to sendNotification only if
\* the re-check holds for its time and urgency (critical, or the time is
\* reached or at most 5 minutes ahead, or high urgency and the confidence of
\* the current hour is more than 0.2 above that of the scheduled hour); after
\* the fire no record with its id is pending, delivered or not; and
\* shouldDeliverNow answers exactly by these cases, so false for medium
\* urgency and a time more than 5 minutes ahead.
C20_TimerReCheck ==
    [][ /\ last'.op = "timer"
           => /\ Len(sent') > Len(sent)
                   => \E t \in timers :
                         /\ t.seq = last'.seq
                         /\ dueOrBetterNow(t.time, t.urgencyLevel)
              /\ \A n \in scheduledNotifications' : n.id # last'.id
        /\ last'.op = "shouldDeliverNow"
           => /\ last'.ret = Bool(dueOrBetterNow(last'.n, last'.urgency))
              /\ (last'.urgency = "medium" /\ last'.n > now + 5)
                    => last'.ret = "false" ]_vars

\* a held notification was handed over by its timer and its record is gone,
\* and the re-check of a medium notification six or more minutes ahead
\* answered false
C20_Witness ==
    /\ last.op = "shouldDeliverNow"
    /\ last.urgency = "medium"
    /\ last.n > now + 5
    /\ last.ret = "false"
    /\ \E i \in 1..Len(sent) :
          /\ sent[i].via = "timer"
          /\ sent[i].notification.scheduledFor > 0
          /\ \A n \in scheduledNotifications : n.id # sent[i].notification.id

---------------------------------------------------------------------------
(* Properties of the delay arbiter and the predictor *)

\* the rate of an hour as the profile holds it, 0.5 for an hour without entry
rateOfHour(h) ==
    IF h \in DOMAIN userBehavior.responseRates
    THEN userBehavior.responseRates[h] ELSE RateScale \div 2

\* the decision the five rules give in their order: <<delay, confidence>>
ruleDecision(proposedTime, urgencyLevel) ==
    LET h == getHours(proposedTime)
        conflict == getBabyScheduleConflict(h)
    IN IF urgencyLevel = "high" /\ proposedTime - now < 4 * 60
       THEN <<FALSE, 8 * (ConfScale \div 10)>>
       ELSE IF inAnyQuietPeriod(proposedTime)
       THEN <<TRUE, 9 * (ConfScale \div 10)>>
       ELSE IF conflict * 10 > 7 * ConflictScale
       THEN <<TRUE, conflict * RateScale>>
       ELSE IF urgencyLevel = "medium" /\ rateOfHour(h) * 10 < 3 * RateScale
       THEN <<TRUE, (RateScale - rateOfHour(h)) * ConflictScale>>
       ELSE <<FALSE, 8 * (ConfScale \div 10)>>

\* C21: for every time the predictor can propose (each hour of the next 24)
\* the arbiter decides as the five rules in their order say: high less than 4
\* hours ahead is never delayed (0.8), then quiet period (0.9), then conflict
\* above 0.7 (the conflict), then medium with a rate below 0.3 (1 - rate),
\* else no delay (0.8); and with the 13:00-15:00 nap of reliability 0.9 a
\* medium request for hour 14 has a conflict of at least 0.72 and is delayed.
C21_ArbiterRuleOrder ==
    /\ \A h \in 0..(HoursPerDay - 1) : \A u \in {"high", "medium"} :
          LET p == createOptimalTime(h)
              d == shouldDelayNotification(p, u)
          IN <<d.shouldDelay, d.confidence>> = ruleDecision(p, u)
    /\ (\E i \in 1..Len(babySchedule.napTimes) :
           babySchedule.napTimes[i] = [start |-> <<13, 0>>, end |-> <<15, 0>>,
                                       reliability |-> 90])
          => /\ getBabyScheduleConflict(14) * 100 >= 72 * ConflictScale
             /\ shouldDelayNotification(createOptimalTime(14), "medium").shouldDelay

---------------------------------------------------------------------------
(* Learning the hours of app usage *)

\* Number.prototype.toString of an hour 0..23: its decimal digits
toString(hour) ==
    IF hour < 10 THEN <<hour>> ELSE <<hour \div 10, hour % 10>>

\* the order of two hours as strings, by UTF-16 code units
stringLess(a, b) ==
    LET x == toString(a)
        y == toString(b)
    IN \/ x[1] < y[1]
       \/ /\ x[1] = y[1]
          /\ \/ Len(x) < Len(y)
             \/ Len(x) = 2 /\ Len(y) = 2 /\ x[2] < y[2]

\* mutant: the hours are compared as numbers
defaultLess_numeric(a, b) == a < b

\* the comparison of Array.prototype.sort() without a compare function:
\* the elements are converted to strings
defaultLess(a, b) == stringLess(a, b)

\* Array.prototype.sort(): stable
RECURSIVE sort(_)
sort(list) ==
    IF list = <<>> THEN <<>>
    ELSE LET least == CHOOSE i \in 1..Len(list) :
                 \A j \in 1..Len(list) :
                    \/ defaultLess(list[i], list[j])
                    \/ ~defaultLess(list[j], list[i]) /\ i <= j
             rest == [k \in 1..(Len(list) - 1) |->
                         IF k < least THEN list[k] ELSE list[k + 1]]
         IN <<list[least]>> \o sort(rest)

\* push(hour) and sort() when the list does not include the hour
withHour(list, hour) ==
    IF includes(list, hour) THEN list ELSE sort(Append(list, hour))

\* SmartNotificationTiming.recordAppUsage(timestamp), public;
\* NotificationService.recordUserAppUsage calls it with new Date()
recordAppUsage(timestamp) ==
    LET hour == getHours(timestamp)
        day == getDay(timestamp)
        pattern == userBehavior.weeklyPattern
        ofDay == IF day \in DOMAIN pattern THEN pattern[day] ELSE <<>>
    IN /\ userBehavior' =
             [userBehavior EXCEPT
                !.appUsageHours = withHour(@, hour),
                !.weeklyPattern = (day :> withHour(ofDay, hour)) @@ pattern,
                !.lastActiveTime = timestamp]
       /\ last' = Op("recordAppUsage", "", NoId, None, "void", timestamp)
       /\ UNCHANGED <<now, permission, preferences, scheduledNotifications, timers,
                      babySchedule, contextualFactors, sent, cancelled, nextSeq,
                      prefUpdates, learnCalls>>

\* the weekly patterns updateUserBehavior is given: midnight and the nap
\* hour on every day, and no pattern at all
PatternUpdates ==
    { [weeklyPattern |-> [d \in 0..6 |-> <<0, 14>>]],
      [weeklyPattern |-> [d \in {} |-> <<>>]] }

\* the clock of the calls and the timestamps of the usage
UsageTimes ==
    { At(2, 7, 10), At(5, 0, 30), At(5, 8, 10), At(5, 12, 0), At(6, 9, 0) }
UsageStamps ==
    { At(2, 9, 5), At(5, 0, 20), At(5, 10, 15), At(5, 8, 40) }

UsageInit ==
    /\ now \in UsageTimes
    /\ permission = "granted"
    /\ preferences = DefaultPreferences
    /\ scheduledNotifications = {}
    /\ timers = {}
    /\ \E c \in UsageTimes :
          /\ c <= now
          /\ userBehavior = DefaultUserBehavior(c)
          /\ contextualFactors = DefaultContextualFactors(c)
    /\ babySchedule = DefaultBabySchedule
    /\ sent = <<>>
    /\ cancelled = {}
    /\ nextSeq = 1
    /\ prefUpdates = 0
    /\ learnCalls = 0
    /\ last = Op("constructor", "", NoId, None, "void", 0)

UsageNext ==
    \/ \E t \in UsageStamps : recordAppUsage(t)
    \/ \E b \in PatternUpdates : updateUserBehavior(b)
    \/ \E u \in {"high", "medium"}, c \in {"recall", "development"} :
          callPredictOptimalTime(u, c)

UsageSpec == UsageInit /\ [][UsageNext]_vars

\* the candidate hours of today
candidates == SeqToSet(patternOf(getDay(now)))

\* the recency exception can apply: the current hour is a candidate
currentIsCandidate == getHours(now) \in candidates

\* C22: for medium urgency, and for high urgency when the current hour is not
\* a candidate, calculateOptimalHour returns a candidate hour whose score no
\* other candidate exceeds, whenever there is a candidate - also when the
\* top-scoring candidate is hour 0.
C22_OptimalHourMaximal ==
    \A u \in {"high", "medium"} : \A c \in {"recall", "development"} :
        (candidates # {} /\ (u = "medium" \/ ~currentIsCandidate))
           => LET r == calculateOptimalHour(u, c)
              IN /\ r \in candidates
                 /\ \A g \in candidates : hourScore(g, u, c) <= hourScore(r, u, c)

\* the candidate hours from the current hour to three hours later
soonCandidates ==
    {h \in candidates : h >= getHours(now) /\ h <= getHours(now) + 3}

\* C23: for high urgency with the current hour among the candidates,
\* calculateOptimalHour returns the numerically least candidate hour from the
\* current hour to three hours later, whatever the order of the stored list.
C23_RecencyEarliest ==
    \A c \in {"recall", "development"} :
        currentIsCandidate
           => LET r == calculateOptimalHour("high", c)
              IN r \in soonCandidates /\ \A h \in soonCandidates : r <= h

\* the last call was a high-urgency prediction for which the recency
\* exception chose the current hour
recencyChoseCurrentHour ==
    /\ last.op = "predictOptimalTime"
    /\ last.urgency = "high"
    /\ currentIsCandidate
    /\ calculateOptimalHour("high", last.id[1]) = getHours(now)

\* the current hour at its minute 0, one day later
currentHourTomorrow == addDay(setHours(now, getHours(now), 0))

---------------------------------------------------------------------------
(* The baby-schedule conflict of an hour *)

Nap(sh, sm, eh, em, reliability) ==
    [start |-> <<sh, sm>>, end |-> <<eh, em>>, reliability |-> reliability]
Fussy(sh, sm, eh, em, intensity) ==
    [start |-> <<sh, sm>>, end |-> <<eh, em>>, intensity |-> intensity]

\* the Partial<BabyScheduleData> objects updateBabySchedule is given: one
\* field each, with windows over midnight, overlapping windows, reliabilities
\* and intensities from 0 to 1 (in hundredths)
ScheduleUpdates ==
    { [napTimes |-> n] :
        n \in { DefaultBabySchedule.napTimes,
                << Nap(23, 0, 1, 0, PctScale), Nap(0, 0, 2, 30, PctScale \div 2) >>,
                << Nap(12, 0, 12, 0, 0), Nap(20, 15, 6, 0, PctScale) >>,
                << >> } }
    \cup { [fussyPeriods |-> f] :
        f \in { DefaultBabySchedule.fussyPeriods,
                << Fussy(22, 0, 2, 0, 80), Fussy(1, 0, 1, 0, PctScale) >>,
                << >> } }
    \cup { [feedingTimes |-> f] :
        f \in { DefaultBabySchedule.feedingTimes, <<0, 12>> } }

\* SmartNotificationTiming.updateBabySchedule: { ...babySchedule, ...scheduleData }
smartUpdateBabySchedule(scheduleData) ==
    /\ babySchedule' = spread(babySchedule, scheduleData)
    /\ last' = Op("smartUpdateBabySchedule", "", NoId, None, "void", 0)
    /\ UNCHANGED <<now, permission, preferences, scheduledNotifications, timers,
                   userBehavior, contextualFactors, sent, cancelled, nextSeq,
                   prefUpdates, learnCalls>>

\* a call of getBabyScheduleConflict(hour); the hour and the result are kept
callGetBabyScheduleConflict(hour) ==
    /\ last' = Op("getBabyScheduleConflict", "", NoId, hour, "void",
                  getBabyScheduleConflict(hour))
    /\ UNCHANGED <<now, permission, preferences, scheduledNotifications, timers,
                   userBehavior, babySchedule, contextualFactors, sent, cancelled,
                   nextSeq, prefUpdates, learnCalls>>

BabyInit ==
    /\ now = At(5, 12, 0)
    /\ permission = "granted"
    /\ preferences = DefaultPreferences
    /\ scheduledNotifications = {}
    /\ timers = {}
    /\ userBehavior = DefaultUserBehavior(now)
    /\ contextualFactors = DefaultContextualFactors(now)
    /\ babySchedule = DefaultBabySchedule
    /\ sent = <<>>
    /\ cancelled = {}
    /\ nextSeq = 1
    /\ prefUpdates = 0
    /\ learnCalls = 0
    /\ last = Op("constructor", "", NoId, None, "void", 0)

BabyNext ==
    \/ \E s \in ScheduleUpdates : smartUpdateBabySchedule(s)
    \/ \E h \in 0..(HoursPerDay - 1) : callGetBabyScheduleConflict(h)

BabySpec == BabyInit /\ [][BabyNext]_vars

\* the window from start to end contains the hour: start <= hour <= end, and
\* for a window over midnight hour >= start or hour <= end (hours as minutes)
windowContains(w, hour) ==
    inWindow(hour * 60, w.start, w.end)

\* the sum of weight * f[i].field / 10 over the windows of f that contain the
\* hour, in thousandths
RECURSIVE weightedSum(_, _, _, _, _)
weightedSum(f, n, field, weight, hour) ==
    IF n = 0 THEN 0
    ELSE weightedSum(f, n - 1, field, weight, hour)
         + (IF windowContains(f[n], hour) THEN f[n][field] * weight ELSE 0)

uncappedConflict(hour) ==
    weightedSum(babySchedule.napTimes, Len(babySchedule.napTimes),
                "reliability", 8, hour)
    + weightedSum(babySchedule.fussyPeriods, Len(babySchedule.fussyPeriods),
                  "intensity", 6, hour)
    + (IF \E i \in 1..Len(babySchedule.feedingTimes) :
             babySchedule.feedingTimes[i] = hour
       THEN 200 ELSE 0)

\* C25: getBabyScheduleConflict(hour) is the sum of reliability * 0.8 over the
\* naps containing the hour, intensity * 0.6 over the fussy periods containing
\* it and 0.2 for a feeding hour, capped at 1.0, so it lies in [0, 1].
C25_ConflictFormula ==
    last.op = "getBabyScheduleConflict"
       => /\ last.n = (IF uncappedConflict(last.seq) > 1000 THEN 1000
                       ELSE uncappedConflict(last.seq))
          /\ last.n >= 0
          /\ last.n <= ConflictScale

\* the conflict of hour 0 with a nap and a fussy period over midnight that
\* together exceed 1.0
C25_Witness ==
    /\ last.op = "getBabyScheduleConflict"
    /\ last.seq = 0
    /\ uncappedConflict(0) > 1000
    /\ last.n = 1000
    /\ \E i \in 1..Len(babySchedule.napTimes) :
          /\ babySchedule.napTimes[i].start[1] > babySchedule.napTimes[i].end[1]
          /\ windowContains(babySchedule.napTimes[i], 0)

---------------------------------------------------------------------------
(* The confidence of a record *)

\* the records the last scheduleRecallNotification created
createdRecords ==
    IF last.op = "schedule"
    THEN {n \in scheduledNotifications : n.seq = last.seq}
    ELSE {}

\* 0.7 + 0.2 [hour active] + 0.3 rate + 0.2 (1 - conflict) + 0.1 [high]
confidenceSum(hour, urgencyLevel) ==
    7 * (ConfScale \div 10)
    + (IF \E i \in 1..Len(userBehavior.appUsageHours) :
             userBehavior.appUsageHours[i] = hour
       THEN 2 * (ConfScale \div 10) ELSE 0)
    + (3 * rateOfHour(hour) * ConflictScale) \div 10
    + (2 * (ConflictScale - getBabyScheduleConflict(hour)) * RateScale) \div 10
    + (IF urgencyLevel = "high" THEN ConfScale \div 10 ELSE 0)

\* the confidence the claim gives for the path the reasoning names
confidenceOfPath(n) ==
    LET hour == calculateOptimalHour(n.type, "recall")
    IN CASE n.timingReasoning = "Optimal timing based on"
              -> Min(ConfScale, confidenceSum(hour, n.type))
         [] n.timingReasoning = "Proposed time conflicts with quiet hours"
              -> 9 * (ConfScale \div 10)
         [] n.timingReasoning = "Baby is likely sleeping or in a fussy period"
              -> getBabyScheduleConflict(hour) * RateScale
         [] n.timingReasoning = "User historically unresponsive at this time"
              -> (RateScale - rateOfHour(hour)) * ConflictScale
         [] n.timingReasoning = "User preference: evening digest delivery"
              -> 9 * (ConfScale \div 10)
         [] n.timingReasoning = "User preference: immediate delivery outside quiet hours"
              -> 8 * (ConfScale \div 10)
         [] OTHER -> ConfScale

\* C26: the record scheduleRecallNotification creates has a confidence in
\* [0, 1]: the capped sum on the no-delay path, 0.9, the conflict or 1 - rate
\* on the delay path, 0.8 or 0.9 on the override paths (1.0 for critical).
C26_ConfidenceInRange ==
    \A n \in createdRecords :
        /\ n.confidence >= 0
        /\ n.confidence <= ConfScale
        /\ n.confidence = confidenceOfPath(n)

\* a record on the no-delay path, created after an interaction was learned,
\* whose sum of terms exceeds 1.0
C26_Witness ==
    \E n \in createdRecords :
        /\ n.timingReasoning = "Optimal timing based on"
        /\ learnCalls > 0
        /\ userBehavior.responseRates # DefaultRates
        /\ confidenceSum(calculateOptimalHour(n.type, "recall"), n.type) > ConfScale
        /\ n.confidence = ConfScale

---------------------------------------------------------------------------
(* The learning call of the timing engine, called directly *)

\* the delivery times and the minutes until the response
DeliveredTimes == { At(5, 8, 0), At(5, 13, 20), At(5, 21, 0), At(6, 3, 45) }
ResponseMinutes == { 0, 7 }

\* a call of the public recordNotificationResponse(id, deliveredAt,
\* respondedAt, actionTaken); the arguments are kept
callRecordNotificationResponse(deliveredAt, respondedAt, actionTaken) ==
    /\ learnCalls < MaxLearn
    /\ learnCalls' = learnCalls + 1
    /\ userBehavior' = recordNotificationResponse(deliveredAt, respondedAt, actionTaken)
    /\ last' = Op("recordNotificationResponse", "",
                  <<actionTaken, deliveredAt, respondedAt>>, None, "void", 0)
    /\ UNCHANGED <<now, permission, preferences, scheduledNotifications, timers,
                   babySchedule, contextualFactors, sent, cancelled, nextSeq,
                   prefUpdates>>

ResponseNext ==
    \/ \E b \in BehaviorUpdates : updateUserBehavior(b)
    \/ \E d \in DeliveredTimes, m \in ResponseMinutes, a \in InteractionActions :
          callRecordNotificationResponse(d, d + m, a)

ResponseSpec == BabyInit /\ [][ResponseNext]_vars

\* the entry of a map, or the default when the map has no entry for the key
entryOr(m, h, default) == IF h \in DOMAIN m THEN m[h] ELSE default

\* acted 1, opened 0.7, dismissed 0.2, in units of 1/RateScale
signalOf(actionTaken) ==
    CASE actionTaken = "acted" -> RateScale
      [] actionTaken = "opened" -> 7 * (RateScale \div 10)
      [] actionTaken = "dismissed" -> 2 * (RateScale \div 10)

\* the entries of the map m of every hour but h are the same in m2
othersKept(m, m2, h) ==
    /\ DOMAIN m2 \ {h} = DOMAIN m \ {h}
    /\ \A g \in DOMAIN m \ {h} : m2[g] = m[g]

\* C27: recordNotificationResponse for a delivery in hour h sets the rate of
\* h to 0.8 * old + 0.2 * signal (old 0.5 for an hour without entry) and the
\* average response time of h to 0.8 * old + 0.2 * minutes until the
\* response (old 15 without entry), and changes nothing else of the profile.
C27_WeightedUpdate ==
    [][ last'.op = "recordNotificationResponse"
        => LET h == getHours(last'.id[2])
               minutes == last'.id[3] - last'.id[2]
               old == userBehavior
               new == userBehavior'
           IN /\ h \in DOMAIN new.responseRates
              /\ new.responseRates[h] * 10
                    = entryOr(old.responseRates, h, RateScale \div 2) * 8
                      + signalOf(last'.id[1]) * 2
              /\ h \in DOMAIN new.averageResponseTime
              /\ new.averageResponseTime[h] * 10
                    = entryOr(old.averageResponseTime, h, 15 * RateScale) * 8
                      + minutes * RateScale * 2
              /\ othersKept(old.responseRates, new.responseRates, h)
              /\ othersKept(old.averageResponseTime, new.averageResponseTime, h)
              /\ new.appUsageHours = old.appUsageHours
              /\ new.weeklyPattern = old.weeklyPattern
              /\ new.quietPeriods = old.quietPeriods ]_vars

---------------------------------------------------------------------------
(* The ranges of the learned values *)

\* C28: every stored response rate lies in [0, 1] and every stored average
\* response time is at least 0, also after an interaction with a held
\* notification whose scheduledFor is still ahead.
C28_LearnedValuesInRange ==
    /\ \A h \in DOMAIN userBehavior.responseRates :
          /\ userBehavior.responseRates[h] >= 0
          /\ userBehavior.responseRates[h] <= RateScale
    /\ \A h \in DOMAIN userBehavior.averageResponseTime :
          userBehavior.averageResponseTime[h] >= 0

---------------------------------------------------------------------------
(* The lists of active hours *)

noDuplicates(list) ==
    \A i \in 1..Len(list) : \A j \in 1..Len(list) : list[i] = list[j] => i = j

ascending(list) ==
    \A i \in 1..Len(list) : \A j \in 1..Len(list) : i < j => list[i] < list[j]

\* the list holds the hour and all it held before, once each, in ascending
\* numeric order
grownBy(before, after, hour) ==
    /\ SeqToSet(after) = SeqToSet(before) \cup {hour}
    /\ noDuplicates(after)
    /\ ascending(after)

\* C29: after recordAppUsage(t) the active hours and the pattern of the
\* weekday of t hold the hour of t and every hour they held before, without
\* duplicates and in ascending numeric order, lastActiveTime is t, and the
\* patterns of the other weekdays are as before.
C29_UsageSortedGrowth ==
    [][ last'.op = "recordAppUsage"
        => LET t == last'.n
               day == getDay(t)
               old == userBehavior
               new == userBehavior'
           IN /\ grownBy(old.appUsageHours, new.appUsageHours, getHours(t))
              /\ day \in DOMAIN new.weeklyPattern
              /\ grownBy(IF day \in DOMAIN old.weeklyPattern
                         THEN old.weeklyPattern[day] ELSE <<>>,
                         new.weeklyPattern[day], getHours(t))
              /\ new.lastActiveTime = t
              /\ DOMAIN new.weeklyPattern \ {day} = DOMAIN old.weeklyPattern \ {day}
              /\ \A d \in DOMAIN old.weeklyPattern \ {day} :
                    new.weeklyPattern[d] = old.weeklyPattern[d] ]_vars

---------------------------------------------------------------------------
(* The quiet periods of the timing engine after a change of preferences *)

\* the single window of the quiet hours of the preferences
windowOf(quietHours) == << [start |-> quietHours.start, end |-> quietHours.end] >>

\* the step is updatePreferences(p): the sections of p replaced those of the
\* preferences; with a high section (which carries quietHours) the quiet
\* periods became its single window, without one they stayed as they were
updatedWith(p) ==
    /\ preferences' = [k \in DOMAIN preferences |->
                          IF k \in DOMAIN p THEN p[k] ELSE preferences[k]]
    /\ IF "high" \in DOMAIN p
       THEN userBehavior'.quietPeriods = windowOf(p.high.quietHours)
       ELSE userBehavior'.quietPeriods = userBehavior.quietPeriods

\* the hours of the coming day that lie in the single quiet period are held
\* back by the arbiter for the reason of the quiet hours
arbiterKeepsWindowQuiet ==
    \A h \in 0..(HoursPerDay - 1) :
        inWindow(h * 60, userBehavior.quietPeriods[1].start,
                 userBehavior.quietPeriods[1].end)
           => shouldDelayNotification(createOptimalTime(h), "medium").reason
                 = "Proposed time conflicts with quiet hours"

\* C30: updatePreferences with high.quietHours replaces the quiet periods of
\* the timing engine by the one window of those quiet hours, enabled or not;
\* without it the quiet periods stay; and with quietHours.enabled = false the
\* arbiter still holds back the hours of the window while isInQuietHours is
\* false.
C30_QuietPeriodsReplaced ==
    [][ last'.op = "updatePreferences"
        => /\ \E p \in PolicyPreferences : updatedWith(p)
           /\ preferences'.high # preferences.high
                 => userBehavior'.quietPeriods = windowOf(preferences'.high.quietHours)
           /\ preferences'.medium # preferences.medium
                 => userBehavior'.quietPeriods = userBehavior.quietPeriods
           /\ (preferences'.high # preferences.high
               /\ ~preferences'.high.quietHours.enabled)
                 => (~isInQuietHours /\ arbiterKeepsWindowQuiet)' ]_vars

\* the quiet hours 22:00-07:00 were switched off at 03:00: the two default
\* quiet periods gave way to that one window, the clock is inside it, the
\* arbiter treats it as quiet and isInQuietHours is false
C30_Witness ==
    /\ last.op = "updatePreferences"
    /\ ~preferences.high.quietHours.enabled
    /\ userBehavior.quietPeriods = windowOf(preferences.high.quietHours)
    /\ userBehavior.quietPeriods # DefaultQuietPeriods
    /\ inAnyQuietPeriod(now)
    /\ ~isInQuietHours
    /\ arbiterKeepsWindowQuiet

=============================================================================
